---- MODULE Spec2Model ----
(***************************************************************************)
(* smartCart: the payment-intent endpoint (payments.py) and the product    *)
(* recommendation tool (recommendItems_mcp.py).                            *)
(*                                                                         *)
(* The services keep no state between requests: every invocation starts   *)
(* from the same state, so a behaviour of the model follows one invocation *)
(* of one handler: which handler runs, its arguments, the external calls   *)
(* it has made so far, and what it returned.  The payment processor and    *)
(* the product catalog are external: every call to them succeeds or fails  *)
(* nondeterministically.                                                   *)
(*                                                                         *)
(* recommendItems_mcp.py does not compile as it stands (the dict literal   *)
(* `keywords` at lines 20-23 is malformed); the model follows the function *)
(* bodies as they are written.                                             *)
(***************************************************************************)
EXTENDS Integers, Sequences, FiniteSets, TLC

VARIABLES
    handler,    \* the handler invoked ("none" before the request arrives)
    args,       \* its arguments
    pc,         \* position inside recommend_items ("idle": nothing running)
    query,      \* recommend_items: the local `query` builder
    calls,      \* external calls made by the current invocation, in order
    result,     \* the value returned (or HTTP response); NoResult while running
    catalog     \* the rows of the external "products" table when the final query read it

vars == <<handler, args, pc, query, calls, result, catalog>>

(***************************************************************************)
(* Bounds of the model.                                                    *)
(***************************************************************************)
MaxAmount == 5      \* amounts range over -MaxAmount..MaxAmount
MaxPrice == 2       \* price_range elements range over -1..MaxPrice
MaxCount == 2       \* explicit counts range over 1..MaxCount
MaxWords == 2       \* free-text queries have at most MaxWords words
MaxProducts == 2    \* format_product_results is given at most MaxProducts records

(***************************************************************************)
(* Python values.  Values of different Python types are kept apart by the  *)
(* field name of a one-field record.                                       *)
(***************************************************************************)
PNone == [none |-> TRUE]
PInf == [inf |-> TRUE]
PMissing == [missing |-> TRUE]
PNum(n) == [num |-> n]
PStr(s) == [str |-> s]
IsNone(v) == "none" \in DOMAIN v
IsInf(v) == "inf" \in DOMAIN v
IsMissing(v) == "missing" \in DOMAIN v
IsNum(v) == "num" \in DOMAIN v
IsStr(v) == "str" \in DOMAIN v
PList(l) == [list |-> l]
IsList(v) == "list" \in DOMAIN v

NoResult == [running |-> TRUE]
IsRunning == "running" \in DOMAIN result

\* a <= b on numbers and float('inf')
NumLeq(a, b) ==
    IF IsInf(b) THEN TRUE
    ELSE IF IsInf(a) THEN FALSE
    ELSE a.num <= b.num

(***************************************************************************)
(* payments.py                                                             *)
(***************************************************************************)
Amounts == (0 - MaxAmount)..MaxAmount
Currencies == {"usd", "eur"}
\* what stripe.PaymentIntent.create can do: return an intent or raise
StripeOutcomes ==
    {[ok |-> TRUE, client_secret |-> s] : s \in {"pi_1_secret", "pi_2_secret"}}
    \cup {[ok |-> FALSE, message |-> m] : m \in {"card_declined", "connection error"}}

HTTPException(status, detail) == [status |-> status, detail |-> detail]

StripeCall(payment, outcome) ==
    [target |-> "stripe.PaymentIntent.create", amount |-> payment.amount,
     currency |-> payment.currency, outcome |-> outcome]

\* a retry after a processor failure, which the handler does not do
CreatePaymentIntentRetrying(payment, outcome) ==
    IF payment.amount <= 0
    THEN [calls |-> <<>>, response |-> HTTPException(400, "Amount must be positive")]
    ELSE IF outcome.ok
    THEN [calls |-> <<StripeCall(payment, outcome)>>,
          response |-> [status |-> 200, clientSecret |-> outcome.client_secret]]
    ELSE [calls |-> <<StripeCall(payment, outcome), StripeCall(payment, outcome)>>,
          response |-> HTTPException(500, outcome.message)]

\* `amount < 0` in place of `amount <= 0`
CreatePaymentIntentZeroAllowed(payment, outcome) ==
    IF payment.amount < 0
    THEN [calls |-> <<>>, response |-> HTTPException(400, "Amount must be positive")]
    ELSE [calls |-> <<StripeCall(payment, outcome)>>,
          response |-> IF outcome.ok
                       THEN [status |-> 200, clientSecret |-> outcome.client_secret]
                       ELSE HTTPException(500, outcome.message)]

\* the body of create_payment_intent: the processor calls it makes and the
\* response, given what the processor does when it is called
CreatePaymentIntent(payment, outcome) ==
    IF payment.amount <= 0
    THEN [calls |-> <<>>, response |-> HTTPException(400, "Amount must be positive")]
    ELSE [calls |-> <<StripeCall(payment, outcome)>>,
          response |-> IF outcome.ok
                       THEN [status |-> 200, clientSecret |-> outcome.client_secret]
                       ELSE HTTPException(500, outcome.message)]

create_payment_intent ==
    /\ handler = "none"
    /\ \E amount \in Amounts, currency \in Currencies, outcome \in StripeOutcomes :
         LET payment == [amount |-> amount, currency |-> currency]
             run == CreatePaymentIntent(payment, outcome)
         IN /\ handler' = "create_payment_intent"
            /\ args' = payment
            /\ calls' = run.calls
            /\ result' = run.response
    /\ UNCHANGED <<pc, query, catalog>>

(***************************************************************************)
(* The external product catalog.                                           *)
(***************************************************************************)
Product(id, title, price, rating, image) ==
    [productId |-> PNum(id), title |-> title, price |-> price, rating |-> rating,
     image |-> image, link |-> PNone]

ProductPool ==
    { Product(1, PStr("Nike Air shoes"), PNum(2), PNum(4), PStr("http://img/1")),
      Product(2, PStr("NIKE socks"), PNum(1), PNum(4), PNone),
      Product(3, PStr("nike refund voucher"), PNum(-1), PNum(5), PNone),
      Product(4, PStr("Sony camera"), PNum(2), PNum(3), PNone) }

(***************************************************************************)
(* Text helpers.  Strings are Python strings; a character is a string of   *)
(* length one.                                                             *)
(***************************************************************************)
\* str.lower() on the upper-case letters
LowerOf ==
    "A" :> "a" @@ "B" :> "b" @@ "C" :> "c" @@ "D" :> "d" @@ "E" :> "e" @@
    "F" :> "f" @@ "G" :> "g" @@ "H" :> "h" @@ "I" :> "i" @@ "J" :> "j" @@
    "K" :> "k" @@ "L" :> "l" @@ "M" :> "m" @@ "N" :> "n" @@ "O" :> "o" @@
    "P" :> "p" @@ "Q" :> "q" @@ "R" :> "r" @@ "S" :> "s" @@ "T" :> "t" @@
    "U" :> "u" @@ "V" :> "v" @@ "W" :> "w" @@ "X" :> "x" @@ "Y" :> "y" @@
    "Z" :> "z"
\* s[i-1:i]: the empty string outside the text
CharAt(s, i) == IF i \in 1..Len(s) THEN SubSeq(s, i, i) ELSE ""
LowerChar(c) == IF c \in DOMAIN LowerOf THEN LowerOf[c] ELSE c
\* the literal w occurs in s at position i, ignoring case
MatchAtCI(s, i, w) ==
    /\ i >= 1
    /\ i + Len(w) - 1 <= Len(s)
    /\ \A k \in 1..Len(w) : LowerChar(CharAt(s, i + k - 1)) = LowerChar(CharAt(w, k))

(***************************************************************************)
(* The catalog's query interface (the supabase query builder).  A query is *)
(* the list of directives the code has put on it; executing it returns the *)
(* rows the directives select.  Rows that the ordering leaves tied, or all *)
(* rows when there is no ordering, come back in any order.                 *)
(***************************************************************************)
SelectedFields == "productId, title, price, image, link, rating"
BaseQuery == [select |-> SelectedFields, ilike |-> PNone, lte |-> PNone,
              gte |-> PNone, order |-> <<>>]

\* title ILIKE '%topic%'
ILike(title, topic) == \E i \in 1..(Len(title) + 1) : MatchAtCI(title, i, topic)

RowMatches(row, q) ==
    /\ IsNone(q.ilike) \/ ILike(row.title.str, q.ilike.str)
    /\ IsNone(q.lte) \/ NumLeq(row.price, q.lte)
    /\ IsNone(q.gte) \/ NumLeq(q.gte, row.price)

RECURSIVE InOrder(_, _, _)
\* row a may come before row b under the order directives
InOrder(a, b, order) ==
    IF order = <<>> THEN TRUE
    ELSE LET k == Head(order) IN
         IF a[k.column].num = b[k.column].num THEN InOrder(a, b, Tail(order))
         ELSE IF k.desc THEN a[k.column].num > b[k.column].num
         ELSE a[k.column].num < b[k.column].num

\* every sequence the catalog may return for query q limited to `limit` rows
Execute(table, q, limit) ==
    LET rows == {r \in table : RowMatches(r, q)}
        n == Cardinality(rows)
        all == {s \in [1..n -> rows] :
                  /\ \A i, j \in 1..n : i # j => s[i] # s[j]
                  /\ \A i, j \in 1..n : i < j => InOrder(s[i], s[j], q.order)}
        m == IF limit < n THEN limit ELSE n
    IN {SubSeq(s, 1, m) : s \in all}

(***************************************************************************)
(* recommendItems_mcp.py: format_product_results.  The text is kept as the *)
(* sequence of its lines; each line carries what kind of line it is and    *)
(* the index of the record it belongs to (0 for the header).               *)
(***************************************************************************)
SessionId == "demo-session"
TitleLimit == 60
TitleKept == 57

Line(kind, index, text) == [kind |-> kind, index |-> index, text |-> text]

\* product.get(key, default); a key the record lacks holds PMissing
Get(product, key, default) == IF IsMissing(product[key]) THEN default ELSE product[key]

IsDict(product) == "title" \in DOMAIN product

\* float(v) raises ValueError or TypeError
FloatRaises(v) == ~IsNum(v)

\* the price converted only after the title line is written
BodyStatementsPriceLate ==
    <<"log_title", "rating", "summary",
      "emit_title", "price", "emit_summary", "emit_price", "emit_image", "emit_blank">>

\* the statements of the loop body, in the order they run
BodyStatements ==
    <<"log_title", "price", "rating", "summary",
      "emit_title", "emit_summary", "emit_price", "emit_image", "emit_blank">>

\* the statement raises an exception that the per-product handler catches
Raises(stmt, product) ==
    IF ~IsDict(product) THEN TRUE                    \* product.get: AttributeError
    ELSE IF stmt = "log_title"
    THEN ~IsStr(Get(product, "title", PStr("Unknown")))   \* title[:20]
    ELSE IF stmt = "price"
    THEN LET price == Get(product, "price", PNum(0)) IN
         ~IsNone(price) /\ FloatRaises(price)
    ELSE FALSE

PriceFormatted(product) ==
    LET price == Get(product, "price", PNum(0)) IN
    IF IsNone(price) THEN "Price not available"
    ELSE "$" \o ToString(price.num) \o ".00"

RatingText(product) ==
    LET rating == Get(product, "rating", PNone) IN
    IF IsNone(rating) THEN ""
    ELSE IF FloatRaises(rating) THEN " | Rating: N/A"
    ELSE " | Rating: " \o ToString(rating.num) \o ".0/5"

Summary(title) ==
    IF Len(title) > TitleLimit THEN SubSeq(title, 1, TitleKept) \o "..." ELSE title

\* the lines the statement appends to `result`
Emits(stmt, i, product) ==
    LET title == Get(product, "title", PStr("Unknown Product")).str
        image == Get(product, "image", PNone)
    IN IF stmt = "emit_title"
       THEN <<Line("title", i, ToString(i) \o ". **" \o title \o "**")>>
       ELSE IF stmt = "emit_summary"
       THEN <<Line("summary", i, "   Summary: " \o Summary(title))>>
       ELSE IF stmt = "emit_price"
       THEN <<Line("price", i, "   Price: " \o PriceFormatted(product) \o RatingText(product))>>
       ELSE IF stmt = "emit_image" /\ IsStr(image) /\ image.str # ""
       THEN <<Line("image", i, "   [Image](" \o image.str \o ")")>>
       ELSE IF stmt = "emit_blank"
       THEN <<Line("blank", i, "")>>
       ELSE <<>>

RECURSIVE RunBody(_, _, _)
\* the try/except around one product: the statements run in order until one
\* raises; the handler then appends the placeholder entry
RunBody(stmts, i, product) ==
    IF stmts = <<>> THEN <<>>
    ELSE IF Raises(Head(stmts), product)
    THEN <<Line("error", i, ToString(i) \o ". **Error formatting product**")>>
    ELSE Emits(Head(stmts), i, product) \o RunBody(Tail(stmts), i, product)

RECURSIVE FormatFrom(_, _)
\* the loop `for i, product in enumerate(products, 1)` from index i on
FormatFrom(products, i) ==
    IF i > Len(products) THEN <<>>
    ELSE RunBody(BodyStatements, i, products[i]) \o FormatFrom(products, i + 1)

\* format_product_results(products, session_id)
FormatProductResults(products, session_id) ==
    IF ~IsList(products)
    THEN <<Line("format_error", 0, "Error formatting results")>>   \* len(products) raises
    ELSE IF products.list = <<>>
    THEN <<Line("empty", 0,
                "No products found matching your criteria. Session ID: " \o session_id)>>
    ELSE <<Line("header", 0,
                "Here are your recommended products (Session ID: " \o session_id \o "):")>>
         \o FormatFrom(products.list, 1)

LongTitle == "Professional mirrorless digital camera body with weather sealing"

\* records given to format_product_results directly: well-formed ones and
\* ones with a missing or ill-typed field
FormatPool ==
    { Product(1, PStr("Nike Air shoes"), PNum(2), PNum(4), PStr("http://img/1")),
      Product(2, PStr(LongTitle), PNum(3), PNone, PNone),
      Product(3, PStr("no price key"), PMissing, PNum(5), PMissing),
      Product(4, PStr("null price"), PNone, PMissing, PNone),
      Product(5, PStr("text price"), PStr("abc"), PNum(3), PNone),
      Product(6, PStr("text rating"), PNum(1), PStr("bad"), PNone),
      Product(7, PNone, PNum(1), PNum(1), PNone),
      Product(8, PMissing, PNum(1), PNum(1), PNone),
      PNone }

RECURSIVE ListsOf(_, _)
\* the sequences of exactly n elements of S
ListsOf(S, n) ==
    IF n = 0 THEN {<<>>}
    ELSE {Append(l, x) : l \in ListsOf(S, n - 1), x \in S}

format_product_results ==
    /\ handler = "none"
    /\ \E products \in {PNone} \cup {PList(l) : l \in UNION {ListsOf(FormatPool, n) : n \in 0..MaxProducts}},
          session_id \in {SessionId, "s-2"} :
         /\ handler' = "format_product_results"
         /\ args' = [products |-> products, session_id |-> session_id]
         /\ result' = [text |-> FormatProductResults(products, session_id)]
    /\ UNCHANGED <<pc, query, calls, catalog>>

(***************************************************************************)
(* recommendItems_mcp.py: recommend_items                                  *)
(***************************************************************************)
DefaultCount == 10
Topics == {"", "nike", "Camera"}
PriceValues == {PNone} \cup {PNum(n) : n \in -1..MaxPrice}
PriceRanges ==
    {PNone, PList(<<>>), PList(<<PNum(1)>>)}
    \cup {PList(<<a, b>>) : a, b \in PriceValues}
Counts == {PNone} \cup {PNum(n) : n \in 1..MaxCount}
CatalogErrors == {"connection reset"}

ErrorText(prefix, message) == [error |-> prefix, message |-> message]
IsError(r) == "error" \in DOMAIN r
IsListing(r) == "products" \in DOMAIN r

CatalogCall(stage, ok) == [target |-> "catalog", stage |-> stage, ok |-> ok]
ClientCall(ok) == [target |-> "create_client", stage |-> "client", ok |-> ok]

\* `if price_range and len(price_range) == 2`
HasPriceRange(price_range) == IsList(price_range) /\ Len(price_range.list) = 2

EffectiveCount(count) == IF IsNone(count) THEN DefaultCount ELSE count.num

\* `topic is None` in place of `not topic`
TopicMissingNoneOnly(topic) == FALSE

\* `not topic`
TopicMissing(topic) == topic = ""

\* entry of recommend_items: parameter validation and defaults
RecommendItemsEntry(h, a) ==
    /\ handler = "none"
    /\ handler' = h
    /\ args' = a
    /\ calls' = <<>>
    /\ query' = PNone
    /\ IF TopicMissing(a.topic)
       THEN /\ result' = ErrorText("Error: Topic is required", "")
            /\ pc' = "idle"
       ELSE /\ result' = NoResult
            /\ pc' = "client"
    /\ UNCHANGED catalog

recommend_items ==
    \E topic \in Topics, price_range \in PriceRanges, count \in Counts :
        RecommendItemsEntry("recommend_items",
            [topic |-> topic, price_range |-> price_range, count |-> count])

\* a step that returns an error string
ReturnError(prefix, message) ==
    /\ result' = ErrorText(prefix, message)
    /\ pc' = "idle"

GetSupabaseClient ==
    /\ pc = "client"
    /\ \/ /\ calls' = Append(calls, ClientCall(TRUE))
          /\ pc' = "probe"
          /\ UNCHANGED result
       \/ \E m \in {"SUPABASE_URL and SUPABASE_KEY environment variables must be set"} :
          /\ ReturnError("Error", m)
          /\ UNCHANGED calls
       \/ \E m \in CatalogErrors :
          /\ calls' = Append(calls, ClientCall(FALSE))
          /\ ReturnError("Error", m)
    /\ UNCHANGED <<handler, args, query, catalog>>

\* a probe whose failure is logged and ignored
ProbeIgnoringFailure(stage, q, next, prefix) ==
    /\ \E ok \in BOOLEAN : calls' = Append(calls, CatalogCall(stage, ok))
    /\ query' = q
    /\ pc' = next
    /\ UNCHANGED result

\* one `query.limit(1).execute()` probe of stage `stage`: it passes and the
\* function goes on to `next` with the query `q`, or it raises and the
\* function returns the stage's error string
Probe(stage, q, next, prefix) ==
    \/ /\ calls' = Append(calls, CatalogCall(stage, TRUE))
       /\ query' = q
       /\ pc' = next
       /\ UNCHANGED result
    \/ \E m \in CatalogErrors :
       /\ calls' = Append(calls, CatalogCall(stage, FALSE))
       /\ query' = q
       /\ ReturnError(prefix, m)

\* the max price put on the query as a lower bound
WithMaxPriceAsMin(q, max) == [q EXCEPT !.gte = max]

WithTitle(q, topic) == [q EXCEPT !.ilike = PStr(topic)]
WithMaxPrice(q, max) == [q EXCEPT !.lte = max]
WithMinPrice(q, min) == [q EXCEPT !.gte = min]

ConnectionTest ==
    /\ pc = "probe"
    /\ Probe("connection", query, "base", "Error connecting to database")
    /\ UNCHANGED <<handler, args, catalog>>

BaseSelect ==
    /\ pc = "base"
    /\ Probe("base", BaseQuery, "title", "Error with base query")
    /\ UNCHANGED <<handler, args, catalog>>

TitleFilter ==
    /\ pc = "title"
    /\ Probe("title", WithTitle(query, args.topic),
             IF HasPriceRange(args.price_range) THEN "max" ELSE "order",
             "Error with title filter")
    /\ UNCHANGED <<handler, args, catalog>>

MaxPriceFilter ==
    /\ pc = "max"
    /\ LET max == args.price_range.list[2] IN
       IF ~IsNone(max)
       THEN Probe("max", WithMaxPrice(query, max), "min",
                  "Error with max price filter")
       ELSE /\ pc' = "min"
            /\ UNCHANGED <<query, calls, result>>
    /\ UNCHANGED <<handler, args, catalog>>

MinPriceFilter ==
    /\ pc = "min"
    /\ LET min == args.price_range.list[1] IN
       IF IsNone(min)
       THEN \* None > 0 raises TypeError, caught by the query-level handler
            /\ ReturnError("Error building query",
                           "'>' not supported between instances of 'NoneType' and 'int'")
            /\ UNCHANGED <<query, calls>>
       ELSE IF ~NumLeq(min, PNum(0))
       THEN Probe("min", WithMinPrice(query, min), "order",
                  "Error with min price filter")
       ELSE /\ pc' = "order"
            /\ UNCHANGED <<query, calls, result>>
    /\ UNCHANGED <<handler, args, catalog>>

\* the price key descending
FullOrderPriceDescending ==
    <<[column |-> "rating", desc |-> TRUE], [column |-> "price", desc |-> TRUE]>>

\* .order("rating", desc=True).order("price", desc=False)
FullOrder == <<[column |-> "rating", desc |-> TRUE], [column |-> "price", desc |-> FALSE]>>

\* the ordering block: a failure of either ordering probe is logged and the
\* function continues with `query` as it stands
Ordering ==
    /\ pc = "order"
    /\ \/ /\ calls' = Append(calls, CatalogCall("order_rating", FALSE))
          /\ UNCHANGED query
       \/ /\ calls' = calls \o <<CatalogCall("order_rating", TRUE),
                                 CatalogCall("order_full", FALSE)>>
          /\ query' = [query EXCEPT !.order = FullOrder]
       \/ /\ calls' = calls \o <<CatalogCall("order_rating", TRUE),
                                 CatalogCall("order_full", TRUE)>>
          /\ query' = [query EXCEPT !.order = FullOrder]
    /\ pc' = "final"
    /\ UNCHANGED <<handler, args, result, catalog>>

Listing(products) ==
    [products |-> products, text |-> FormatProductResults(PList(products), SessionId)]

FinalQuery ==
    /\ pc = "final"
    /\ \/ \E table \in SUBSET ProductPool :
          \E products \in Execute(table, query, EffectiveCount(args.count)) :
          /\ catalog' = table
          /\ calls' = Append(calls, CatalogCall("final", TRUE))
          /\ result' = Listing(products)
          /\ pc' = "idle"
       \/ \E m \in CatalogErrors :
          /\ calls' = Append(calls, CatalogCall("final", FALSE))
          /\ ReturnError("Error building query", m)
          /\ UNCHANGED catalog
       \/ \E m \in CatalogErrors :
          /\ calls' = Append(calls, CatalogCall("final", FALSE))
          /\ ReturnError("Error querying products", m)
          /\ UNCHANGED catalog
    /\ UNCHANGED <<handler, args, query>>


(***************************************************************************)
(* recommendItems_mcp.py: parse_query_parameters.  The regular expressions *)
(* are matched on the characters of the text, as re.search and re.sub do:  *)
(* the leftmost match wins, and re.sub removes every non-overlapping match *)
(* from left to right.                                                     *)
(***************************************************************************)
Digits == "0123456789"
IsDigit(c) == \E d \in 1..Len(Digits) : CharAt(Digits, d) = c
IsSpace(c) == c \in {" ", "\t", "\n", "\r"}
Least(S) == IF S = {} THEN 0 ELSE CHOOSE i \in S : \A j \in S : i <= j

\* the position after the longest run of digits (\d+) or white space (\s+)
\* that starts at i; i itself when the run is empty
DigitsEnd(s, i) == Least({j \in i..(Len(s) + 1) : ~IsDigit(CharAt(s, j))})
SpacesEnd(s, i) == Least({j \in i..(Len(s) + 1) : ~IsSpace(CharAt(s, j))})

RECURSIVE IntOf(_)
\* int(text) of a run of digits
IntOf(text) ==
    IF text = "" THEN 0
    ELSE LET last == CharAt(text, Len(text)) IN
         10 * IntOf(SubSeq(text, 1, Len(text) - 1))
         + (CHOOSE d \in 0..9 : CharAt(Digits, d + 1) = last)

\* float(text) of \d+(?:\.\d+)?
FloatOf(text) ==
    LET e == DigitsEnd(text, 1) IN
    IF e > Len(text) THEN PNum(IntOf(text))
    ELSE [num |-> IntOf(SubSeq(text, 1, e - 1)), frac |-> SubSeq(text, e + 1, Len(text))]

\* (?:show|find|get|display)\s+(?:me\s+)?(\d+) matched at i: where group 1
\* starts, or 0 when there is no match at i
VerbCountGroup(s, i) ==
    LET verbs == {v \in {"show", "find", "get", "display"} : MatchAtCI(s, i, v)} IN
    IF verbs = {} THEN 0
    ELSE LET j == i + Len(CHOOSE v \in verbs : TRUE)
             k == SpacesEnd(s, j)
             m == IF MatchAtCI(s, k, "me") /\ SpacesEnd(s, k + 2) > k + 2
                  THEN SpacesEnd(s, k + 2) ELSE k
         IN IF k > j /\ IsDigit(CharAt(s, m)) THEN m ELSE 0

\* (\d+)\s+(?:products|items) matched at i: the position after the match, or 0
ItemsCountEnd(s, i) ==
    LET e == DigitsEnd(s, i)
        k == SpacesEnd(s, e)
    IN IF e > i /\ k > e /\ MatchAtCI(s, k, "products") THEN k + Len("products")
       ELSE IF e > i /\ k > e /\ MatchAtCI(s, k, "items") THEN k + Len("items")
       ELSE 0

\* under\s+\$?(\d+(?:\.\d+)?) matched at i: where group 1 starts, or 0
UnderPriceGroup(s, i) ==
    LET j == i + Len("under")
        k == SpacesEnd(s, j)
        d == IF CharAt(s, k) = "$" THEN k + 1 ELSE k
    IN IF MatchAtCI(s, i, "under") /\ k > j /\ IsDigit(CharAt(s, d)) THEN d ELSE 0

\* the position after \d+(?:\.\d+)? starting at d
NumberEnd(s, d) ==
    LET e == DigitsEnd(s, d) IN
    IF CharAt(s, e) = "." /\ IsDigit(CharAt(s, e + 1)) THEN DigitsEnd(s, e + 1) ELSE e

\* re.search: group 1 of the leftmost match as text, PNone when nothing matches
SearchVerbCount(s) ==
    LET i == Least({k \in 1..Len(s) : VerbCountGroup(s, k) > 0}) IN
    IF i = 0 THEN PNone
    ELSE LET g == VerbCountGroup(s, i) IN PStr(SubSeq(s, g, DigitsEnd(s, g) - 1))

SearchItemsCount(s) ==
    LET i == Least({k \in 1..Len(s) : ItemsCountEnd(s, k) > 0}) IN
    IF i = 0 THEN PNone ELSE PStr(SubSeq(s, i, DigitsEnd(s, i) - 1))

SearchUnderPrice(s) ==
    LET i == Least({k \in 1..Len(s) : UnderPriceGroup(s, k) > 0}) IN
    IF i = 0 THEN PNone
    ELSE LET g == UnderPriceGroup(s, i) IN PStr(SubSeq(s, g, NumberEnd(s, g) - 1))

\* the position after a match of pattern p at i, or 0
PatternEnd(p, s, i) ==
    IF p = "\\d+\\s+(?:products|items)" THEN ItemsCountEnd(s, i)
    ELSE IF p = "under\\s+\\$?\\d+(?:\\.\\d+)?"
    THEN (IF UnderPriceGroup(s, i) > 0 THEN NumberEnd(s, UnderPriceGroup(s, i)) ELSE 0)
    ELSE IF MatchAtCI(s, i, p) THEN i + Len(p) ELSE 0

RECURSIVE RemoveFrom(_, _, _)
\* re.sub(p, '', s, flags=re.IGNORECASE), from position i on
RemoveFrom(p, s, i) ==
    IF i > Len(s) THEN ""
    ELSE LET e == PatternEnd(p, s, i) IN
         IF e > i THEN RemoveFrom(p, s, e)
         ELSE CharAt(s, i) \o RemoveFrom(p, s, i + 1)

\* re.sub('^' + w, '', s, flags=re.IGNORECASE)
RemovePrefix(w, s) ==
    IF MatchAtCI(s, 1, w) THEN SubSeq(s, Len(w) + 1, Len(s)) ELSE s

RECURSIVE RemoveEach(_, _)
\* the loop `for p in patterns: s = re.sub(p, '', s)`
RemoveEach(patterns, s) ==
    IF patterns = <<>> THEN s
    ELSE RemoveEach(Tail(patterns), RemoveFrom(Head(patterns), s, 1))

RECURSIVE RemoveEachPrefix(_, _)
RemoveEachPrefix(prefixes, s) ==
    IF prefixes = <<>> THEN s
    ELSE RemoveEachPrefix(Tail(prefixes), RemovePrefix(Head(prefixes), s))

RECURSIVE CollapseFrom(_, _)
\* re.sub(r'\s+', ' ', s), from position i on
CollapseFrom(s, i) ==
    IF i > Len(s) THEN ""
    ELSE IF IsSpace(CharAt(s, i)) THEN " " \o CollapseFrom(s, SpacesEnd(s, i))
    ELSE CharAt(s, i) \o CollapseFrom(s, i + 1)

\* s.strip()
Strip(s) ==
    LET a == SpacesEnd(s, 1)
        b == Least({j \in a..(Len(s) + 1) : \A k \in j..Len(s) : IsSpace(CharAt(s, k))})
    IN SubSeq(s, a, b - 1)

QuestionPrefixes == <<"show me", "find me", "get me", "what are", "recommend">>
Qualifiers == <<"the best", "best-rated", "affordable", "good", "great", "top">>

\* the names parse_query_parameters binds before it reads `price_match`
BoundNames ==
    {"query", "params", "count_match", "price_max", "price_min", "max_price",
     "min_price", "topic_query", "pattern"}

\* as if `price_match` were assigned before it is read
PriceMatchAssigned == TRUE

\* `if price_match:` can be evaluated (it raises NameError otherwise)
PriceMatchBound == "price_match" \in BoundNames

\* what the body of the try block returns when it runs to its end
ParsedParams(q) ==
    LET verb_count == SearchVerbCount(q)
        count_match == IF IsNone(verb_count) THEN SearchItemsCount(q) ELSE verb_count
        count == IF IsNone(count_match) THEN PNone ELSE PNum(IntOf(count_match.str))
        price_max == SearchUnderPrice(q)
        price_min == SearchUnderPrice(q)
        range1 == IF ~IsNone(price_max) /\ ~IsNone(price_min)
                  THEN PList(<<FloatOf(price_min.str), FloatOf(price_max.str)>>)
                  ELSE PNone
        range2 == IF ~IsNone(price_max)
                  THEN PList(<<PNum(0), FloatOf(price_max.str)>>)
                  ELSE range1
        range3 == IF ~IsNone(price_min)
                  THEN PList(<<FloatOf(price_min.str), PInf>>)
                  ELSE range2
        topic1 == RemoveEachPrefix(QuestionPrefixes, q)
        topic2 == IF ~IsNone(count_match)
                  THEN RemoveFrom("\\d+\\s+(?:products|items)", topic1, 1)
                  ELSE topic1
        topic3 == IF ~IsNone(price_max)
                  THEN RemoveFrom("under\\s+\\$?\\d+(?:\\.\\d+)?", topic2, 1)
                  ELSE topic2
        topic4 == RemoveEach(Qualifiers, topic3)
        topic5 == Strip(CollapseFrom(topic4, 1))
    IN [topic |-> topic5, price_range |-> range3, count |-> count]

\* parse_query_parameters: any exception inside the try block is caught and
\* the default parameters, with the whole query as the topic, are returned
ParseQueryParameters(q) ==
    IF PriceMatchBound THEN ParsedParams(q)
    ELSE [topic |-> q, price_range |-> PNone, count |-> PNone]

Vocabulary == {"show", "me", "0", "10", "items", "under", "$150", "shoes", "top"}

RECURSIVE Phrases(_)
\* the texts of exactly n words, single spaces between them
Phrases(n) ==
    IF n = 0 THEN {""}
    ELSE IF n = 1 THEN Vocabulary
    ELSE {p \o " " \o w : p \in Phrases(n - 1), w \in Vocabulary}

Queries ==
    UNION {Phrases(n) : n \in 0..MaxWords}
    \cup {"Show me 10 Nike shoes under $150", "best-rated cameras",
          "find 3 items under 2.50", "Get me  the best laptops"}

parse_query_parameters ==
    /\ handler = "none"
    /\ \E q \in Queries :
         /\ handler' = "parse_query_parameters"
         /\ args' = [query |-> q]
         /\ result' = ParseQueryParameters(q)
    /\ UNCHANGED <<pc, query, calls, catalog>>

recommend_items_from_query ==
    \E q \in Queries :
        LET params == ParseQueryParameters(q) IN
        RecommendItemsEntry("recommend_items_from_query",
            [query |-> q, topic |-> params.topic,
             price_range |-> params.price_range, count |-> params.count])

Init ==
    /\ handler = "none"
    /\ args = PNone
    /\ pc = "idle"
    /\ query = PNone
    /\ calls = <<>>
    /\ result = PNone
    /\ catalog = {}

Next ==
    \/ create_payment_intent
    \/ recommend_items
    \/ recommend_items_from_query
    \/ parse_query_parameters
    \/ format_product_results
    \/ GetSupabaseClient
    \/ ConnectionTest
    \/ BaseSelect
    \/ TitleFilter
    \/ MaxPriceFilter
    \/ MinPriceFilter
    \/ Ordering
    \/ FinalQuery

Spec == Init /\ [][Next]_vars

(***************************************************************************)
(* Properties.                                                             *)
(***************************************************************************)
Returned == handler # "none" /\ pc = "idle"
InRecommendItems == handler \in {"recommend_items", "recommend_items_from_query"}
ReturnedListing == InRecommendItems /\ IsListing(result)
FailedCalls == {i \in 1..Len(calls) : ~calls[i].ok}
OrderingStages == {"order_rating", "order_full"}

\* C1: a request with amount <= 0 is rejected with HTTP 400 and the payment
\* processor is not called for it.
C1_NonPositiveAmountRejected ==
    (handler = "create_payment_intent" /\ args.amount <= 0)
        => /\ result = HTTPException(400, "Amount must be positive")
           /\ calls = <<>>

C1_Witness ==
    /\ handler = "create_payment_intent"
    /\ args.amount < 0
    /\ result.status = 400

\* C2: a request with amount > 0 calls the processor exactly once, with the
\* given amount and currency, and the response is that call's outcome: 200
\* with the processor's secret, or 500 with the processor's error message.
C2_PositiveAmountDelegatedOnce ==
    (handler = "create_payment_intent" /\ args.amount > 0)
        => /\ Len(calls) = 1
           /\ calls[1].target = "stripe.PaymentIntent.create"
           /\ calls[1].amount = args.amount
           /\ calls[1].currency = args.currency
           /\ calls[1].outcome.ok
                => result = [status |-> 200,
                             clientSecret |-> calls[1].outcome.client_secret]
           /\ ~calls[1].outcome.ok
                => result = HTTPException(500, calls[1].outcome.message)

C2_Witness ==
    /\ handler = "create_payment_intent"
    /\ args.amount > 0
    /\ ~calls[1].outcome.ok
    /\ result.status = 500

\* C3: recommend_items called with an empty topic returns the client-input
\* error text at once: no catalog client is constructed and no catalog query
\* is executed.
C3_EmptyTopicNoExternalCall ==
    (InRecommendItems /\ args.topic = "")
        => /\ pc = "idle"
           /\ IsError(result)
           /\ result.error = "Error: Topic is required"
           /\ calls = <<>>

C3_Witness ==
    /\ InRecommendItems
    /\ args.topic = ""
    /\ IsError(result)

\* the call carries a two-element price range [priceMin, priceMax] of
\* numbers with priceMin <= priceMax
OrderedPriceRange ==
    /\ HasPriceRange(args.price_range)
    /\ IsNum(args.price_range.list[1])
    /\ IsNum(args.price_range.list[2])
    /\ NumLeq(args.price_range.list[1], args.price_range.list[2])

\* C4 as stated: with a price range priceMin <= priceMax, every listed record
\* has priceMin <= price <= priceMax, whatever the catalog holds.
C4_AsStated ==
    (ReturnedListing /\ OrderedPriceRange)
        => \A i \in 1..Len(result.products) :
             /\ NumLeq(args.price_range.list[1], result.products[i].price)
             /\ NumLeq(result.products[i].price, args.price_range.list[2])

\* C4 (amended): with a price range priceMin <= priceMax, every listed record
\* has price <= priceMax, and priceMin <= price whenever priceMin > 0.
C4_PriceBounds ==
    (ReturnedListing /\ OrderedPriceRange)
        => \A i \in 1..Len(result.products) :
             /\ NumLeq(result.products[i].price, args.price_range.list[2])
             /\ args.price_range.list[1].num > 0
                  => NumLeq(args.price_range.list[1], result.products[i].price)

\* a listing from which both price filters removed a row with a matching title
C4_Witness ==
    /\ ReturnedListing
    /\ OrderedPriceRange
    /\ args.price_range.list[1].num > 0
    /\ result.products # <<>>
    /\ \E r \in catalog : ILike(r.title.str, args.topic)
                          /\ r.price.num > args.price_range.list[2].num
    /\ \E r \in catalog : ILike(r.title.str, args.topic)
                          /\ r.price.num < args.price_range.list[1].num

\* adjacent records are in rating-descending, then price-ascending order
SortedListing(products) ==
    \A i \in 1..(Len(products) - 1) :
        /\ products[i].rating.num >= products[i + 1].rating.num
        /\ products[i].rating.num = products[i + 1].rating.num
             => products[i].price.num <= products[i + 1].price.num

C6_ExampleParsed ==
    handler = "parse_query_parameters"
        => /\ args.query = "Show me 10 Nike shoes under $150"
                => result = [topic |-> "Nike shoes",
                             price_range |-> PList(<<PNum(0), PNum(150)>>),
                             count |-> PNum(10)]
           /\ ~IsNone(SearchUnderPrice(args.query))
                => result.price_range
                     = PList(<<PNum(0), FloatOf(SearchUnderPrice(args.query).str)>>)

\* C7: parse_query_parameters always returns a record with exactly the fields
\* topic, price_range and count; a field whose pattern is not in the text is
\* None; a price range has priceMin <= priceMax; a count is > 0.
C7_WellFormedParams ==
    handler = "parse_query_parameters"
        => /\ DOMAIN result = {"topic", "price_range", "count"}
           /\ IsNone(result.price_range)
              \/ /\ IsList(result.price_range)
                 /\ Len(result.price_range.list) = 2
                 /\ NumLeq(result.price_range.list[1], result.price_range.list[2])
           /\ IsNone(result.count) \/ result.count.num > 0
           /\ IsNone(SearchUnderPrice(args.query)) => IsNone(result.price_range)
           /\ (IsNone(SearchVerbCount(args.query)) /\ IsNone(SearchItemsCount(args.query)))
                => IsNone(result.count)

\* a text with none of the patterns in it has been parsed
C7_Witness ==
    /\ handler = "parse_query_parameters"
    /\ args.query = "shoes top"
    /\ IsNone(result.count)
    /\ IsNone(result.price_range)
    /\ result.topic # ""

\* the record's price is missing or not a number
PriceUnusable(product) ==
    IsDict(product) /\ (IsMissing(product.price) \/ IsStr(product.price))

\* C8: for a record whose price is missing or non-numeric, the output holds a
\* price line for that record with the "not available" label.
C8_UnavailablePriceLabel ==
    (handler = "format_product_results" /\ IsList(args.products))
        => \A i \in 1..Len(args.products.list) :
             (PriceUnusable(args.products.list[i])
              /\ IsStr(args.products.list[i].title))
                => \E k \in 1..Len(result.text) :
                     /\ result.text[k].kind = "price"
                     /\ result.text[k].index = i
                     /\ MatchAtCI(result.text[k].text, 1, "   Price: Price not available")

\* the lines of the text that open an entry, in order
RECURSIVE EntryIndexes(_)
EntryIndexes(text) ==
    IF text = <<>> THEN <<>>
    ELSE IF Head(text).kind \in {"title", "error"}
    THEN <<Head(text).index>> \o EntryIndexes(Tail(text))
    ELSE EntryIndexes(Tail(text))

KindAt(text, k) == IF k \in 1..Len(text) THEN text[k].kind ELSE "end"

\* C9: for n >= 1 records the text holds one entry per record, numbered 1..n
\* in input order; an entry is either the whole formatted record or the
\* placeholder alone, never a part of a record followed by the placeholder.
C9_OneEntryPerRecord ==
    (handler = "format_product_results" /\ IsList(args.products)
     /\ args.products.list # <<>>)
        => LET text == result.text
               n == Len(args.products.list)
           IN /\ EntryIndexes(text) = [i \in 1..n |-> i]
              /\ \A k \in 1..Len(text) :
                   /\ text[k].kind \in {"title", "error"}
                        => /\ KindAt(text, k - 1) \in {"header", "blank", "error"}
                           /\ MatchAtCI(text[k].text, 1, ToString(text[k].index) \o ". **")
                   /\ text[k].kind = "title"
                        => /\ KindAt(text, k + 1) = "summary"
                           /\ KindAt(text, k + 2) = "price"
                           /\ \/ KindAt(text, k + 3) = "blank"
                              \/ /\ KindAt(text, k + 3) = "image"
                                 /\ KindAt(text, k + 4) = "blank"
                   /\ text[k].kind = "error"
                        => KindAt(text, k + 1) \in {"title", "error", "end"}

\* a record that fails is followed by a record that is formatted
C9_Witness ==
    /\ handler = "format_product_results"
    /\ IsList(args.products)
    /\ Len(args.products.list) = 2
    /\ PriceUnusable(args.products.list[1])
    /\ Len(result.text) > 2
    /\ result.text[2].kind = "error"
    /\ result.text[3].kind = "title"
    /\ result.text[3].index = 2

\* the error text recommend_items returns when the given stage fails
StageErrors(stage) ==
    IF stage = "client" THEN {"Error"}
    ELSE IF stage = "connection" THEN {"Error connecting to database"}
    ELSE IF stage = "base" THEN {"Error with base query"}
    ELSE IF stage = "title" THEN {"Error with title filter"}
    ELSE IF stage = "max" THEN {"Error with max price filter"}
    ELSE IF stage = "min" THEN {"Error with min price filter"}
    ELSE IF stage = "final" THEN {"Error building query", "Error querying products"}
    ELSE {}

NoStageTwice == \A i, j \in 1..Len(calls) : i # j => calls[i].stage # calls[j].stage

====
